---- MODULE Spec2Model ----
(***************************************************************************)
(* A model of src/tar.rs of toast: `create` builds a tar archive from a    *)
(* list of paths and returns it with a hash of the included files, and     *)
(* `add_file` ingests one file.  A path is the sequence of its tokens      *)
(* (the separator "/" and the file names), a file's content and a digest   *)
(* are sequences of tokens as well.                                        *)
(***************************************************************************)
EXTENDS Integers, Sequences, FiniteSets, TLC

(***************************************************************************)
(* Bounds of the model.                                                    *)
(***************************************************************************)
\* the longest list of paths handed to create
MaxPaths == 2
\* how many times the environment edits the file tree around the calls
MaxEdits == 1
\* how many symbolic links one path resolution follows before it gives up
MaxLinks == 2

(***************************************************************************)
(* Paths: std::path::Path, by what its methods do on the text of a path.   *)
(***************************************************************************)
Sep == "/"

\* Path::has_root, and Path::starts_with("/"), which compares components
HasRoot(p) == Len(p) > 0 /\ p[1] = Sep

IsName(t) == t # Sep

\* Path::components: the names of a path, repeated separators merged
Components(p) == SelectSeq(p, IsName)

RECURSIVE FromComponents(_)
FromComponents(cs) ==
  IF Len(cs) = 0 THEN <<>>
  ELSE IF Len(cs) = 1 THEN cs
  ELSE <<Head(cs), Sep>> \o FromComponents(Tail(cs))

\* The text of the absolute path of a node of the file tree.
AbsoluteText(node) == <<Sep>> \o FromComponents(node)

\* Path::join: an absolute argument replaces the base
Join(base, p) ==
  IF HasRoot(p) THEN p
  ELSE IF Len(base) = 0 THEN p
  ELSE IF base[Len(base)] = Sep THEN base \o p
  ELSE base \o <<Sep>> \o p

RECURSIVE TrimLeft(_)
TrimLeft(p) == IF HasRoot(p) THEN TrimLeft(Tail(p)) ELSE p

\* one separator fewer: what removing the first character of the text does
DropOneSeparator(p) == IF HasRoot(p) THEN Tail(p) ELSE p

\* destination.strip_prefix("/").unwrap(): what is left after the root
\* component, which is every leading separator of the text
StripRoot(p) == TrimLeft(p)

IsPrefix(s, t) == Len(s) <= Len(t) /\ SubSeq(t, 1, Len(s)) = s

StripPrefixError == <<"StripPrefixError">>

\* a path made relative by taking its root off, whatever the base
StripRootOnly(p, base) == TrimLeft(p)

\* Path::strip_prefix(base), component by component
StripPrefix(p, base) ==
  IF HasRoot(p) = HasRoot(base) /\ IsPrefix(Components(base), Components(p))
  THEN FromComponents(SubSeq(Components(p), Len(Components(base)) + 1,
                             Len(Components(p))))
  ELSE StripPrefixError

\* The names that are not valid UTF-8 (one byte each, 0xFF and 0xFE).
InvalidUtf8 == {"\\xFF", "\\xFE"}

\* the identity, as a conversion that loses nothing would be
ToStringExact(p) == p

\* Path::to_string_lossy: every invalid byte becomes U+FFFD
ToStringLossy(p) ==
  [i \in DOMAIN p |-> IF p[i] \in InvalidUtf8 THEN "U+FFFD" ELSE p[i]]

(***************************************************************************)
(* The file tree.  A node is named by the names on its canonical absolute *)
(* path; the tree holds two candidate source roots with the same files.    *)
(***************************************************************************)
Roots == {"r1", "r2"}
FileNames == {"b.txt", "c.sh", "\\xFF", "\\xFE"}
LinkName == "loop"
LeafNames == FileNames \cup {LinkName}

Nodes ==
  {<<r>> : r \in Roots} \cup {<<r, "a">> : r \in Roots}
    \cup {<<r, "a", n>> : r \in Roots, n \in LeafNames}

NoNode == <<"ENOENT">>

Contents == {<<"h", "i">>, <<"b", "y", "e">>}

\* permission bits: 0o644, 0o755 and 0o610
Modes == {420, 493, 392}

Absent == [kind |-> "none", content |-> <<>>, mode |-> 0, target |-> <<>>]
Directory == [kind |-> "dir", content |-> <<>>, mode |-> 493, target |-> <<>>]
RegularFile(c, m) == [kind |-> "file", content |-> c, mode |-> m, target |-> <<>>]
Symlink(t) == [kind |-> "link", content |-> <<>>, mode |-> 511, target |-> t]

\* a/b.txt holds "hi" and is not executable, a/c.sh holds "bye" and is;
\* a/loop links back to the root above it.
InitFS ==
  [n \in Nodes |->
     IF Len(n) < 3 THEN Directory
     ELSE IF n[3] = "b.txt" THEN RegularFile(<<"h", "i">>, 420)
     ELSE IF n[3] = "c.sh" THEN RegularFile(<<"b", "y", "e">>, 493)
     ELSE IF n[3] = LinkName THEN Symlink(<<n[1]>>)
     ELSE Absent]

\* The orders in which a directory hands out its entries.
NameOrder == <<"a", "b.txt", "c.sh", "\\xFF", "\\xFE", "loop">>
ReverseOrder == <<"loop", "\\xFE", "\\xFF", "c.sh", "b.txt", "a">>
DirOrders == {NameOrder, ReverseOrder}

(***************************************************************************)
(* The state: the environment, the arguments of create, its locals, the    *)
(* value it returns, and a record of the call before this one.             *)
(***************************************************************************)
VARIABLES
  fs,               \* the file tree: what every node is
  readdir,          \* the order in which directories hand out their entries
  interrupted,      \* the shared flag, set by the caller's signal handler
  faulty,           \* whether the environment's I/O may fail
  edits,            \* how many edits the environment has made
  paths,            \* argument: the inputs, relative to the source directory
  source_dir,       \* argument: the source directory as given
  destination_dir,  \* argument: the prefix of every archived path
  pc,               \* where create is
  canonical_dir,    \* the local source_dir: the canonicalized source directory
  index,            \* which of paths the outer loop is at
  walk,             \* what the WalkDir iterator has yet to yield
  frame,            \* the locals of add_file
  file,             \* the file add_file has open
  descriptors,      \* how many file descriptors of the process are open
  file_hashes,      \* the hashes of the files added so far
  builder,          \* the tar builder: its entries, and whether it is finished
  result,           \* what create hands to its caller
  ingested,         \* history: the file behind each hash, in the order pushed
  flag_at_call,     \* history: the flag when create was called
  tree_at_call,     \* history: the file tree when create was called
  previous          \* history: the call before this one

environment == <<fs, readdir, faulty, edits>>
arguments == <<paths, source_dir, destination_dir, tree_at_call>>
vars ==
  <<fs, readdir, interrupted, faulty, edits, paths, source_dir,
    destination_dir, pc, canonical_dir, index, walk, frame, file, descriptors,
    file_hashes, builder, result, ingested, flag_at_call, tree_at_call,
    previous>>

(***************************************************************************)
(* The file system calls.                                                  *)
(***************************************************************************)
Kind(n) ==
  IF n = <<>> THEN "dir" ELSE IF n \in Nodes THEN fs[n].kind ELSE "none"

\* Walks the names cs down from the directory cur, following every link.
RECURSIVE ResolveFrom(_, _, _)
ResolveFrom(cur, cs, links) ==
  IF Len(cs) = 0 THEN cur
  ELSE LET n == Append(cur, Head(cs)) IN
    IF Kind(n) = "none" THEN NoNode
    ELSE IF Kind(n) = "link"
      THEN IF links = 0 THEN NoNode
           ELSE ResolveFrom(<<>>, fs[n].target \o Tail(cs), links - 1)
    ELSE IF Kind(n) = "file" /\ Len(cs) > 1 THEN NoNode
    ELSE ResolveFrom(n, Tail(cs), links)

\* The node a path names, links followed (the working directory is "/").
Resolve(p) == ResolveFrom(<<>>, Components(p), MaxLinks)

\* The node a path names, a link in the last place not followed.
Lstat(p) ==
  LET cs == Components(p) IN
  IF Len(cs) = 0 THEN <<>>
  ELSE LET parent == ResolveFrom(<<>>, SubSeq(cs, 1, Len(cs) - 1), MaxLinks)
           n == Append(parent, cs[Len(cs)])
       IN IF parent = NoNode \/ Kind(n) = "none" THEN NoNode ELSE n

CanonicalizeError == <<"ENOENT">>

\* Path::canonicalize
Canonicalize(p) ==
  IF Resolve(p) = NoNode THEN CanonicalizeError ELSE AbsoluteText(Resolve(p))

\* fs::Metadata of a node: the file type, permissions().mode() and len()
Metadata(n) ==
  [kind |-> Kind(n),
   mode |-> IF n \in Nodes THEN fs[n].mode ELSE 493,
   len |-> IF n \in Nodes THEN Len(fs[n].content) ELSE 0]

IsChild(nm, dir) == Kind(Append(dir, nm)) # "none"

\* The names in a directory, in the order the directory hands them out.
ReadDir(dir) == SelectSeq(readdir, LAMBDA nm : IsChild(nm, dir))

\* WalkDir: depth first, a directory before its entries; a link is followed
\* only when it is the root of the walk.
RECURSIVE WalkFrom(_, _, _)
RECURSIVE WalkEntries(_, _, _, _)
WalkFrom(p, n, depth) ==
  LET dir == IF Kind(n) = "dir" THEN n
             ELSE IF depth = 0 /\ Kind(n) = "link" /\ Kind(Resolve(p)) = "dir"
               THEN Resolve(p)
             ELSE NoNode
  IN <<[path |-> p, node |-> n]>>
       \o (IF dir = NoNode THEN <<>> ELSE WalkEntries(p, dir, ReadDir(dir), depth))

WalkEntries(p, dir, names, depth) ==
  IF Len(names) = 0 THEN <<>>
  ELSE WalkFrom(Join(p, <<Head(names)>>), Append(dir, Head(names)), depth + 1)
         \o WalkEntries(p, dir, Tail(names), depth)

\* WalkDir::new(&source_path)
WalkDir(p) == WalkFrom(p, Lstat(p), 0)

(***************************************************************************)
(* The hash engine (crate::cache).  A digest is written as the term that   *)
(* produced it, so that two digests are equal only when they were computed *)
(* the same way from the same data: the engine has no collisions.          *)
(***************************************************************************)
hash_str(s) == <<"hash_str(">> \o s \o <<")">>
hash_read(bytes) == <<"hash_read(">> \o bytes \o <<")">>
extend(x, y) == <<"extend(">> \o x \o <<",">> \o y \o <<")">>

\* The characters of the digests and their order.
Alphabet ==
  <<"extend(", "hash_str(", "hash_read(", ",", ")", "+x", "-x", Sep,
    "U+FFFD", "a", "b", "b.txt", "c.sh", "e", "foo", "h", "i", "loop",
    "nope", "r1", "r2", "y", "\\xFE", "\\xFF">>

Rank(t) == CHOOSE i \in 1..Len(Alphabet) : Alphabet[i] = t

\* String's Ord: the lexicographic order
RECURSIVE StringLess(_, _)
StringLess(x, y) ==
  IF Len(y) = 0 THEN FALSE
  ELSE IF Len(x) = 0 THEN TRUE
  ELSE IF Head(x) = Head(y) THEN StringLess(Tail(x), Tail(y))
  ELSE Rank(Head(x)) < Rank(Head(y))

RECURSIVE Insert(_, _)
Insert(x, sorted) ==
  IF Len(sorted) = 0 THEN <<x>>
  ELSE IF StringLess(x, Head(sorted)) THEN <<x>> \o sorted
  ELSE <<Head(sorted)>> \o Insert(x, Tail(sorted))

RECURSIVE SortedVec(_)
SortedVec(v) == IF Len(v) = 0 THEN <<>> ELSE Insert(Head(v), SortedVec(Tail(v)))

\* a vector left in the order of its pushes
UnsortedVec(v) == v

\* file_hashes.sort()
Sort(v) == SortedVec(v)

\* iter().fold(init, |acc, x| cache::extend(&acc, x))
RECURSIVE Fold(_, _)
Fold(acc, v) == IF Len(v) = 0 THEN acc ELSE Fold(extend(acc, Head(v)), Tail(v))

(***************************************************************************)
(* add_file, up to the header (the rest is the steps Open to Append).      *)
(***************************************************************************)
\* the modes of the tar header: 0o777 and 0o666
ExecutableMode == 511
PlainMode == 438

Bit(mode, b) == (mode \div b) % 2 = 1

\* a test of the owner's execute bit alone
OwnerExecutable(mode) == Bit(mode, 64)

\* mode & 0o1 > 0 || mode & 0o10 > 0 || mode & 0o100 > 0
Executable(mode) == Bit(mode, 1) \/ Bit(mode, 8) \/ Bit(mode, 64)

\* a destination left as the join made it
DestinationUnstripped(path) == Join(destination_dir, path)

\* a destination less its first separator only
DestinationLessOne(path) == DropOneSeparator(Join(destination_dir, path))

\* destination_dir.join(&path), less the root when it has one
Destination(path) ==
  LET destination == Join(destination_dir, path) IN
  IF HasRoot(destination) THEN StripRoot(destination) ELSE destination

\* the path of the file under the source directory, which names where it is
HashedSource(path) == ToStringLossy(Join(canonical_dir, path))

\* what add_file hashes of the path: &path.to_string_lossy()
HashedPath(path) == ToStringLossy(path)

Marker(executable) == IF executable THEN <<"+x">> ELSE <<"-x">>

\* the hash pushed for one file
FileHash(path, bytes, executable) ==
  extend(extend(hash_str(HashedPath(path)), hash_read(bytes)), Marker(executable))

NoFrame ==
  [active |-> FALSE, path |-> <<>>, source |-> <<>>, destination |-> <<>>,
   mode |-> 0, executable |-> FALSE, header |-> [mode |-> 0, size |-> 0]]

\* the locals of add_file(builder, metadata, path, source_dir, destination_dir)
AddFile(metadata, path) ==
  [active |-> TRUE,
   path |-> path,
   source |-> Join(canonical_dir, path),
   destination |-> Destination(path),
   mode |-> metadata.mode,
   executable |-> Executable(metadata.mode),
   header |-> [mode |-> IF Executable(metadata.mode) THEN ExecutableMode
                        ELSE PlainMode,
               size |-> metadata.len]]

Closed == [open |-> FALSE, node |-> <<>>, position |-> 0]

\* a file that goes out of scope with its descriptor left open
Leaked(n) == n

\* the File is dropped (at a return, or inside append_data, which takes it
\* by value): its descriptor is closed
Drop(n) == n - 1

\* a seek that leaves the position where the read left it
NotRewound(f) == f

\* file.seek(SeekFrom::Start(0))
Rewound(f) == [f EXCEPT !.position = 0]

\* a vector that keeps one copy of equal hashes
PushNew(v, h) == IF \E i \in DOMAIN v : v[i] = h THEN v ELSE Append(v, h)

\* file_hashes.push(h)
Push(v, h) == Append(v, h)

\* what a read to the end of the open file returns
ReadToEnd(f) ==
  SubSeq(fs[f.node].content, f.position + 1, Len(fs[f.node].content))

(***************************************************************************)
(* What create returns: Result<(W, String), String>.                       *)
(***************************************************************************)
NewBuilder == [entries |-> <<>>, finished |-> FALSE]

\* a vector that still holds what an earlier call left in it
StaleVec == file_hashes

\* vec![]
NewVec == <<>>

NoResult ==
  [kind |-> "none", returned |-> {}, archive |-> NewBuilder,
   fingerprint |-> <<>>, error |-> "none"]

Ok(w, hash) ==
  [kind |-> "Ok", returned |-> {"archive", "fingerprint"}, archive |-> w,
   fingerprint |-> hash, error |-> "none"]

Err(e) ==
  [kind |-> "Err", returned |-> {"error"}, archive |-> NewBuilder,
   fingerprint |-> <<>>, error |-> e]

\* a panic unwinds through create: the caller is handed nothing
Unwound ==
  [kind |-> "panic", returned |-> {}, archive |-> NewBuilder,
   fingerprint |-> <<>>, error |-> "none"]

INTERRUPT_MESSAGE == "Interrupted."

Terminal == {"Done", "Failed", "Interrupted", "Panicked"}

\* whether the environment lets the next I/O call succeed
Outcomes == IF faulty THEN BOOLEAN ELSE {TRUE}

\* a poll that never sees the flag
NeverInterrupted == FALSE

\* interrupted.load(Ordering::SeqCst)
InterruptRequested == interrupted

\* return Err(e): the locals are dropped, the open file with them
Return(e) ==
  /\ pc' = (IF e = INTERRUPT_MESSAGE THEN "Interrupted" ELSE "Failed")
  /\ result' = Err(e)
  /\ file' = Closed
  /\ descriptors' = (IF file.open THEN Drop(descriptors) ELSE descriptors)

(***************************************************************************)
(* create, step by step.                                                   *)
(***************************************************************************)
\* The caller calls create(_, writer, ps, sd, dd, interrupted).
Enter(ps, sd, dd) ==
  /\ paths' = ps
  /\ source_dir' = sd
  /\ destination_dir' = dd
  /\ pc' = "Resolving"
  /\ canonical_dir' = <<>>
  /\ index' = 1
  /\ walk' = <<>>
  /\ frame' = NoFrame
  /\ file' = Closed
  /\ result' = NoResult
  /\ ingested' = <<>>
  /\ flag_at_call' = interrupted
  /\ tree_at_call' = [fs |-> fs, readdir |-> readdir]
  /\ UNCHANGED <<environment, interrupted, file_hashes, builder, descriptors>>

\* source_dir.canonicalize(), then the empty vector and the new builder
CanonicalizeSourceDir ==
  /\ pc = "Resolving"
  /\ \E ok \in Outcomes :
       IF ok /\ Canonicalize(source_dir) # CanonicalizeError
       THEN /\ canonical_dir' = Canonicalize(source_dir)
            /\ file_hashes' = NewVec
            /\ builder' = NewBuilder
            /\ pc' = "NextInput"
            /\ UNCHANGED <<result, file, descriptors>>
       ELSE /\ Return("Unable to canonicalize path")
            /\ UNCHANGED <<canonical_dir, file_hashes, builder>>
  /\ UNCHANGED <<environment, interrupted, arguments, index, walk, frame,
                 ingested, flag_at_call, previous>>

\* a loop that stops before the last of the paths
LastPathSkipped == index >= Len(paths)

\* for path in paths: whether every path has had its turn
PathsExhausted == index > Len(paths)

\* for path in paths: the end of the loop, or the poll of the flag
NextInput ==
  /\ pc = "NextInput"
  /\ IF PathsExhausted
     THEN pc' = "Aggregating" /\ UNCHANGED <<result, file, descriptors>>
     ELSE IF InterruptRequested
       THEN Return(INTERRUPT_MESSAGE)
       ELSE pc' = "Metadata" /\ UNCHANGED <<result, file, descriptors>>
  /\ UNCHANGED <<environment, interrupted, arguments, canonical_dir, index,
                 walk, frame, file_hashes, builder, ingested, flag_at_call,
                 previous>>

\* fs::metadata(&source_path), then the walk of a directory or add_file
FetchMetadata ==
  /\ pc = "Metadata"
  /\ LET source_path == Join(canonical_dir, paths[index])
         node == Resolve(source_path)
     IN \E ok \in Outcomes :
          IF ~ok \/ node = NoNode
          THEN /\ Return("Unable to fetch filesystem metadata")
               /\ UNCHANGED <<walk, frame>>
          ELSE IF Metadata(node).kind = "dir"
            THEN /\ walk' = WalkDir(source_path)
                 /\ pc' = "WalkNext"
                 /\ UNCHANGED <<frame, result, file, descriptors>>
            ELSE /\ frame' = AddFile(Metadata(node), paths[index])
                 /\ pc' = "Open"
                 /\ UNCHANGED <<walk, result, file, descriptors>>
  /\ UNCHANGED <<environment, interrupted, arguments, canonical_dir, index,
                 file_hashes, builder, ingested, flag_at_call, previous>>

\* for entry in WalkDir: the end of the walk, or the poll of the flag
WalkNext ==
  /\ pc = "WalkNext"
  /\ IF Len(walk) = 0
     THEN /\ pc' = "NextInput"
          /\ index' = index + 1
          /\ UNCHANGED <<result, file, descriptors>>
     ELSE IF InterruptRequested
       THEN Return(INTERRUPT_MESSAGE) /\ UNCHANGED index
       ELSE pc' = "Entry" /\ UNCHANGED <<index, result, file, descriptors>>
  /\ UNCHANGED <<environment, interrupted, arguments, canonical_dir, walk,
                 frame, file_hashes, builder, ingested, flag_at_call, previous>>

\* an entry that is anything but a directory
NotDirectory(entry) == Kind(entry.node) # "dir"

\* entry_metadata.is_file(): the entry itself, a link is not followed
IsFile(entry) == Kind(entry.node) = "file"

EntryOutcomes ==
  IF faulty THEN {"ok", "traverse", "metadata", "canonicalize"} ELSE {"ok"}

\* the body of the walk: the entry, its metadata, and add_file for a file
Entry ==
  /\ pc = "Entry"
  /\ walk' = Tail(walk)
  /\ LET entry == Head(walk)
         canonical == Canonicalize(entry.path)
     IN \E io \in EntryOutcomes :
          IF io = "traverse"
          THEN Return("Unable to traverse directory") /\ UNCHANGED frame
          ELSE IF io = "metadata"
          THEN Return("Unable to fetch filesystem metadata") /\ UNCHANGED frame
          ELSE IF ~IsFile(entry)
          THEN pc' = "WalkNext" /\ UNCHANGED <<frame, result, file, descriptors>>
          ELSE IF io = "canonicalize" \/ canonical = CanonicalizeError
          THEN Return("Unable to canonicalize path") /\ UNCHANGED frame
          ELSE IF StripPrefix(canonical, canonical_dir) = StripPrefixError
          THEN Return("Unable to relativize path") /\ UNCHANGED frame
          ELSE /\ frame' = AddFile(Metadata(entry.node),
                                   StripPrefix(canonical, canonical_dir))
               /\ pc' = "Open"
               /\ UNCHANGED <<result, file, descriptors>>
  /\ UNCHANGED <<environment, interrupted, arguments, canonical_dir, index,
                 file_hashes, builder, ingested, flag_at_call, previous>>

\* File::open(&source)
Open ==
  /\ pc = "Open"
  /\ \E ok \in Outcomes :
       IF ok /\ Resolve(frame.source) # NoNode
       THEN /\ file' = [open |-> TRUE, node |-> Resolve(frame.source),
                        position |-> 0]
            /\ descriptors' = descriptors + 1
            /\ pc' = "HashRead"
            /\ UNCHANGED result
       ELSE Return("Unable to open file")
  /\ UNCHANGED <<environment, interrupted, arguments, canonical_dir, index,
                 walk, frame, file_hashes, builder, ingested, flag_at_call,
                 previous>>

\* file_hashes.push(extend(extend(hash_str(path), hash_read(&mut file)?), marker))
HashRead ==
  /\ pc = "HashRead"
  /\ \E ok \in Outcomes :
       IF ok
       THEN /\ file_hashes' =
                 Push(file_hashes,
                      FileHash(frame.path, ReadToEnd(file), frame.executable))
            /\ ingested' =
                 Append(ingested,
                        [path |-> frame.path, content |-> ReadToEnd(file),
                         executable |-> frame.executable,
                         mode |-> frame.mode, input |-> index])
            /\ file' = [file EXCEPT !.position = Len(fs[file.node].content)]
            /\ pc' = "Seek"
            /\ UNCHANGED <<result, descriptors>>
       ELSE /\ Return("Unable to read file")
            /\ UNCHANGED <<file_hashes, ingested>>
  /\ UNCHANGED <<environment, interrupted, arguments, canonical_dir, index,
                 walk, frame, builder, flag_at_call, previous>>

\* file.seek(SeekFrom::Start(0))
Seek ==
  /\ pc = "Seek"
  /\ \E ok \in Outcomes :
       IF ok
       THEN /\ file' = Rewound(file)
            /\ pc' = "Append"
            /\ UNCHANGED <<result, descriptors>>
       ELSE Return("Unable to seek file")
  /\ UNCHANGED <<environment, interrupted, arguments, canonical_dir, index,
                 walk, frame, file_hashes, builder, ingested, flag_at_call,
                 previous>>

\* builder.append_data(&mut header, destination, file).unwrap()
AppendData ==
  /\ pc = "Append"
  /\ \E ok \in Outcomes :
       IF ok
       THEN /\ builder' =
                 [builder EXCEPT !.entries =
                    Append(@, [path |-> frame.destination,
                               mode |-> frame.header.mode,
                               size |-> frame.header.size,
                               data |-> ReadToEnd(file)])]
            /\ pc' = "WalkNext"
            /\ frame' = NoFrame
            /\ UNCHANGED result
       ELSE /\ pc' = "Panicked"
            /\ result' = Unwound
            /\ UNCHANGED <<builder, frame>>
  /\ file' = Closed
  /\ descriptors' = Drop(descriptors)
  /\ UNCHANGED <<environment, interrupted, arguments, canonical_dir, index,
                 walk, file_hashes, ingested, flag_at_call, previous>>

\* file_hashes.sort()
Aggregate ==
  /\ pc = "Aggregating"
  /\ file_hashes' = Sort(file_hashes)
  /\ pc' = "Finalize"
  /\ UNCHANGED <<environment, interrupted, arguments, canonical_dir, index,
                 walk, frame, file, descriptors, builder, result, ingested,
                 flag_at_call,
                 previous>>

\* Ok((builder.into_inner()?, file_hashes.iter().fold(hash_str(""), extend)))
Finalize ==
  /\ pc = "Finalize"
  /\ \E ok \in Outcomes :
       IF ok
       THEN /\ builder' = [builder EXCEPT !.finished = TRUE]
            /\ result' = Ok(builder', Fold(hash_str(<<>>), file_hashes))
            /\ pc' = "Done"
            /\ UNCHANGED <<file, descriptors>>
       ELSE /\ Return("Error writing tar archive")
            /\ UNCHANGED builder
  /\ UNCHANGED <<environment, interrupted, arguments, canonical_dir, index,
                 walk, frame, file_hashes, ingested, flag_at_call, previous>>

\* The caller's signal handler sets the flag; nothing clears it.
SetInterrupted ==
  /\ ~interrupted
  /\ pc \notin Terminal
  /\ interrupted' = TRUE
  /\ UNCHANGED <<environment, arguments, pc, canonical_dir, index, walk, frame,
                 file, descriptors, file_hashes, builder, result, ingested,
                 flag_at_call,
                 previous>>

(***************************************************************************)
(* The callers and the environment.                                        *)
(***************************************************************************)
RECURSIVE ListsUpTo(_, _)
ListsUpTo(S, n) ==
  IF n = 0 THEN {<<>>}
  ELSE ListsUpTo(S, n - 1)
         \cup {Append(l, x) : l \in {m \in ListsUpTo(S, n - 1) : Len(m) = n - 1},
                              x \in S}

\* a directory, two files, a path that names nothing, the absolute paths of
\* a file and of a directory, and a link to the directory above it
InputPaths ==
  {<<"a">>, <<"a", Sep, "b.txt">>, <<"a", Sep, "c.sh">>, <<"nope">>,
   <<Sep, "r1", Sep, "a", Sep, "b.txt">>, <<Sep, "r1", Sep, "a">>,
   <<"a", Sep, LinkName>>}

SourceDirs == {<<Sep, "r1">>, <<Sep, "r2">>, <<Sep, "nope">>}

\* "/foo", "foo" and "//foo"
DestinationDirs == {<<Sep, "foo">>, <<"foo">>, <<Sep, Sep, "foo">>}

NoPrevious ==
  [valid |-> FALSE, paths |-> <<>>, source_dir |-> <<>>,
   destination_dir |-> <<>>, fs |-> InitFS, readdir |-> <<>>,
   ingested |-> <<>>, entries |-> <<>>, fingerprint |-> <<>>]

Init ==
  /\ fs = InitFS
  /\ readdir \in DirOrders
  /\ interrupted \in BOOLEAN
  /\ faulty = TRUE
  /\ edits = 0
  /\ paths = <<>>
  /\ source_dir = <<>>
  /\ destination_dir = <<>>
  /\ pc = "Init"
  /\ canonical_dir = <<>>
  /\ index = 1
  /\ walk = <<>>
  /\ frame = NoFrame
  /\ file = Closed
  /\ descriptors = 0
  /\ file_hashes = <<>>
  /\ builder = NewBuilder
  /\ result = NoResult
  /\ ingested = <<>>
  /\ flag_at_call = FALSE
  /\ tree_at_call = [fs |-> InitFS, readdir |-> NameOrder]
  /\ previous = NoPrevious

\* One call of create, with any arguments.
Call ==
  /\ pc = "Init"
  /\ \E ps \in ListsUpTo(InputPaths, MaxPaths), sd \in SourceDirs,
        dd \in DestinationDirs : Enter(ps, sd, dd)
  /\ UNCHANGED previous

Next ==
  \/ Call
  \/ SetInterrupted
  \/ CanonicalizeSourceDir
  \/ NextInput
  \/ FetchMetadata
  \/ WalkNext
  \/ Entry
  \/ Open
  \/ HashRead
  \/ Seek
  \/ AppendData
  \/ Aggregate
  \/ Finalize

Spec == Init /\ [][Next]_vars

(***************************************************************************)
(* Two calls in a row, on a file tree that the environment may edit in     *)
(* between, with no I/O failure and no interruption.                       *)
(***************************************************************************)
\* the tree at the start: the second file of a has the name 0xFF, which is
\* not UTF-8, in place of c.sh
NonUtf8FS ==
  [n \in Nodes |->
     IF Len(n) = 3 /\ n[3] = "c.sh" THEN Absent
     ELSE IF Len(n) = 3 /\ n[3] = "\\xFF" THEN InitFS[<<n[1], "a", "c.sh">>]
     ELSE InitFS[n]]

PairInputs == {<<"a">>, <<"a", Sep, "b.txt">>}
PairSourceDirs == {<<Sep, "r1">>, <<Sep, "r2">>}
PairDestinationDirs == {<<Sep, "foo">>, <<"foo">>}

InitPair ==
  /\ fs = NonUtf8FS
  /\ readdir = NameOrder
  /\ interrupted = FALSE
  /\ faulty = FALSE
  /\ edits = 0
  /\ paths = <<>>
  /\ source_dir = <<>>
  /\ destination_dir = <<>>
  /\ pc = "Init"
  /\ canonical_dir = <<>>
  /\ index = 1
  /\ walk = <<>>
  /\ frame = NoFrame
  /\ file = Closed
  /\ descriptors = 0
  /\ file_hashes = <<>>
  /\ builder = NewBuilder
  /\ result = NoResult
  /\ ingested = <<>>
  /\ flag_at_call = FALSE
  /\ tree_at_call = [fs |-> InitFS, readdir |-> NameOrder]
  /\ previous = NoPrevious

CallFirst ==
  /\ pc = "Init"
  /\ \E ps \in ListsUpTo(PairInputs, MaxPaths) :
       Enter(ps, <<Sep, "r1">>, <<Sep, "foo">>)
  /\ UNCHANGED previous

\* The second call, after the first has returned its archive and hash.
CallAgain ==
  /\ pc = "Done"
  /\ ~previous.valid
  /\ previous' =
       [valid |-> TRUE, paths |-> paths, source_dir |-> source_dir,
        destination_dir |-> destination_dir, fs |-> tree_at_call.fs,
        readdir |-> tree_at_call.readdir,
        ingested |-> ingested, entries |-> result.archive.entries,
        fingerprint |-> result.fingerprint]
  /\ \E ps \in ListsUpTo(PairInputs, MaxPaths), sd \in PairSourceDirs,
        dd \in PairDestinationDirs : Enter(ps, sd, dd)

\* The files the environment edits: those of the directory a of the root r1.
Editable == {n \in Nodes : Len(n) = 3 /\ n[1] = "r1" /\ fs[n].kind = "file"}

CanEdit == pc = "Done" /\ ~previous.valid /\ edits < MaxEdits

Edited(tree) ==
  /\ fs' = tree
  /\ edits' = edits + 1
  /\ UNCHANGED <<readdir, faulty, interrupted, arguments, pc, canonical_dir,
                 index, walk, frame, file, descriptors, file_hashes, builder,
                 result,
                 ingested, flag_at_call, previous>>

WriteFile ==
  /\ CanEdit
  /\ \E n \in Editable, c \in Contents :
       /\ c # fs[n].content
       /\ Edited([fs EXCEPT ![n].content = c])

Chmod ==
  /\ CanEdit
  /\ \E n \in Editable, m \in Modes :
       /\ m # fs[n].mode
       /\ Edited([fs EXCEPT ![n].mode = m])

Rename ==
  /\ CanEdit
  /\ \E n \in Editable, name \in FileNames :
       /\ fs[<<n[1], n[2], name>>].kind = "none"
       /\ Edited([fs EXCEPT ![<<n[1], n[2], name>>] = fs[n], ![n] = Absent])

Remove ==
  /\ CanEdit
  /\ \E n \in Editable : Edited([fs EXCEPT ![n] = Absent])

\* The same tree on a file system that lists its directories the other way.
Reorder ==
  /\ CanEdit
  /\ \E order \in DirOrders :
       /\ order # readdir
       /\ readdir' = order
  /\ edits' = edits + 1
  /\ UNCHANGED <<fs, faulty, interrupted, arguments, pc, canonical_dir, index,
                 walk, frame, file, descriptors, file_hashes, builder, result,
                 ingested,
                 flag_at_call, previous>>

NextPair ==
  \/ CallFirst
  \/ CallAgain
  \/ WriteFile
  \/ Chmod
  \/ Rename
  \/ Remove
  \/ Reorder
  \/ CanonicalizeSourceDir
  \/ NextInput
  \/ FetchMetadata
  \/ WalkNext
  \/ Entry
  \/ Open
  \/ HashRead
  \/ Seek
  \/ AppendData
  \/ Aggregate
  \/ Finalize

SpecPair == InitPair /\ [][NextPair]_vars

(***************************************************************************)
(* The properties.                                                         *)
(***************************************************************************)
Range(s) == {s[i] : i \in DOMAIN s}
Count(x, s) == Cardinality({i \in DOMAIN s : s[i] = x})

\* the same elements, each as many times, in any order
SameBag(s, t) ==
  /\ Len(s) = Len(t)
  /\ \A x \in Range(s) \cup Range(t) : Count(x, s) = Count(x, t)

\* what the hash is meant to depend on: relative path, content, executable
Triple(x) == [path |-> x.path, content |-> x.content, executable |-> x.executable]
Triples(s) == [i \in DOMAIN s |-> Triple(s[i])]

\* both calls have returned an archive and a hash
BothDone == pc = "Done" /\ previous.valid

SameFiles == SameBag(Triples(previous.ingested), Triples(ingested))

SameFingerprint == previous.fingerprint = result.fingerprint

\* C1: two successful calls with the same source and destination directory
\* that ingest the same files (path, content, executable flag), in whatever
\* order the inputs are listed and the directories enumerated, return the
\* same hash.
C1_FingerprintIgnoresOrder ==
  (/\ BothDone
   /\ previous.source_dir = source_dir
   /\ previous.destination_dir = destination_dir
   /\ SameFiles)
    => SameFingerprint

\* two files, ingested b.txt first by one call and b.txt last by the other
C1_Witness ==
  /\ BothDone
  /\ previous.source_dir = source_dir
  /\ previous.destination_dir = destination_dir
  /\ SameFiles
  /\ Len(ingested) >= 2
  /\ Triples(previous.ingested) # Triples(ingested)
  /\ SameFingerprint

\* the per-file digest as the specification writes it
PerFileDigest(x) ==
  extend(extend(hash_str(ToStringLossy(x.path)), hash_read(x.content)),
         IF x.executable THEN <<"+x">> ELSE <<"-x">>)

PerFileDigests == [i \in DOMAIN ingested |-> PerFileDigest(ingested[i])]

IsSorted(v) == \A i, j \in DOMAIN v : i < j => ~StringLess(v[j], v[i])

\* the left fold, from its last step backwards
RECURSIVE LeftFold(_)
LeftFold(v) ==
  IF Len(v) = 0 THEN hash_str(<<>>)
  ELSE extend(LeftFold(SubSeq(v, 1, Len(v) - 1)), v[Len(v)])

\* C2: when create returns its archive, the hash it returns is the left
\* fold of extend, from hash_str(""), over the sorted list that holds one
\* digest extend(extend(hash_str(path), hash_read(content)), "+x" or "-x")
\* for each ingested file; with no file it is hash_str("").
C2_FingerprintIsSortedFold ==
  pc = "Done" =>
    /\ IsSorted(file_hashes)
    /\ SameBag(file_hashes, PerFileDigests)
    /\ result.fingerprint = LeftFold(file_hashes)
    /\ (Len(ingested) = 0 => result.fingerprint = hash_str(<<>>))

\* a successful call whose files were not ingested in the sorted order
C2_Witness ==
  /\ pc = "Done"
  /\ Len(ingested) >= 2
  /\ file_hashes # PerFileDigests
  /\ result.fingerprint = LeftFold(file_hashes)

\* C3: two successful calls that do not ingest the same files (a content, an
\* executable flag or a relative path changed, a file added or removed)
\* return different hashes.
C3_FingerprintSeparatesFiles ==
  (BothDone /\ ~SameFiles) => ~SameFingerprint

\* C4: two successful calls that ingest the same files (relative path,
\* content, executable flag) return the same hash, wherever the source
\* directory lies, whatever the destination directory is and whatever the
\* other permission bits of the files are.
C4_FingerprintOfFilesOnly ==
  (BothDone /\ SameFiles) => SameFingerprint

\* the same files archived under another destination directory, one of them
\* with other permission bits (0o755 and 0o610, both executable)
C4_Witness ==
  /\ BothDone
  /\ SameFiles
  /\ Len(ingested) >= 2
  /\ previous.destination_dir # destination_dir
  /\ \E i \in DOMAIN previous.ingested, j \in DOMAIN ingested :
       /\ Triple(previous.ingested[i]) = Triple(ingested[j])
       /\ previous.ingested[i].mode # ingested[j].mode
  /\ SameFingerprint

\* the same files under the other source directory
C4_OtherSourceDir ==
  /\ BothDone
  /\ SameFiles
  /\ Len(ingested) >= 2
  /\ previous.source_dir # source_dir
  /\ SameFingerprint

\* this call found the file tree and the order of its directories as the
\* call before it did
SameTree ==
  previous.fs = tree_at_call.fs /\ previous.readdir = tree_at_call.readdir

SameArchive == previous.entries = result.archive.entries

\* C5: on the same paths, source directory and file tree, the destination
\* directories "/foo" and "foo" give the same archive (the same entries with
\* the same paths, in the same order) and the same hash.
C5_LeadingSeparatorIgnored ==
  (/\ BothDone
   /\ previous.paths = paths
   /\ previous.source_dir = source_dir
   /\ SameTree
   /\ previous.destination_dir = <<Sep, "foo">>
   /\ destination_dir = <<"foo">>)
    => (SameArchive /\ SameFingerprint)

C5_Witness ==
  /\ BothDone
  /\ previous.paths = paths
  /\ previous.source_dir = source_dir
  /\ SameTree
  /\ previous.destination_dir = <<Sep, "foo">>
  /\ destination_dir = <<"foo">>
  /\ Len(result.archive.entries) >= 2
  /\ SameArchive

\* C6: a second call with the arguments of the first, on the file tree as
\* the first found it, returns the same archive (the same entries in the
\* same order) and the same hash.
C6_RerunIsIdentical ==
  (/\ BothDone
   /\ previous.paths = paths
   /\ previous.source_dir = source_dir
   /\ previous.destination_dir = destination_dir
   /\ SameTree)
    => (SameArchive /\ SameFingerprint)

C6_Witness ==
  /\ BothDone
  /\ previous.paths = paths
  /\ previous.source_dir = source_dir
  /\ previous.destination_dir = destination_dir
  /\ SameTree
  /\ Len(result.archive.entries) >= 2
  /\ SameArchive
  /\ SameFingerprint

NoArchiveNoFingerprint == result.returned = {"error"}

\* C7 as claimed: if the flag is set when create is called, then, whatever
\* the paths (the empty list too) and the source directory, create returns
\* the interrupted error, with no archive and no hash.
C7_InterruptedBeforeAnyWork ==
  (flag_at_call /\ pc \in Terminal) =>
    (pc = "Interrupted" /\ result = Err(INTERRUPT_MESSAGE))

\* C7 as amended: if the flag is set when create is called, the source
\* directory is canonicalized and there is at least one path, create returns
\* the interrupted error, with no archive and no hash.
C7_InterruptedAtFirstPath ==
  (flag_at_call /\ pc \in Terminal /\ Len(canonical_dir) > 0 /\ Len(paths) > 0)
    => (/\ pc = "Interrupted"
        /\ result = Err(INTERRUPT_MESSAGE)
        /\ NoArchiveNoFingerprint
        /\ Len(ingested) = 0)

C7_Witness ==
  /\ flag_at_call
  /\ Len(paths) > 0
  /\ pc = "Interrupted"
  /\ result = Err(INTERRUPT_MESSAGE)

\* C8: create ends by handing its caller either the archive with the hash
\* or one error; it ends in no other way, a failed append included.
C8_ReturnsPairOrError ==
  pc \in Terminal =>
    \/ result.kind = "Ok" /\ result.returned = {"archive", "fingerprint"}
    \/ result.kind = "Err" /\ result.returned = {"error"}

\* the regular files beneath a directory, at any depth
Beneath(dir) ==
  {n \in Nodes : /\ Len(n) > Len(dir)
                 /\ SubSeq(n, 1, Len(dir)) = dir
                 /\ fs[n].kind = "file"}

\* what the archive is to hold of the file n under the relative path rel
Archived(rel, n) ==
  [path |-> FromComponents(Components(Join(destination_dir, rel))),
   data |-> fs[n].content]

\* what the archive is to hold for the i-th path
ArchivedFor(i) ==
  LET n == Resolve(Join(canonical_dir, paths[i])) IN
  IF Kind(n) = "dir"
  THEN {Archived(StripPrefix(AbsoluteText(f), canonical_dir), f) : f \in Beneath(n)}
  ELSE {Archived(paths[i], n)}

InArchive == [i \in DOMAIN builder.entries |->
                [path |-> builder.entries[i].path, data |-> builder.entries[i].data]]

ArchiveComplete ==
  \A e \in Range(InArchive) \cup UNION {ArchivedFor(i) : i \in DOMAIN paths} :
    Count(e, InArchive) = Cardinality({i \in DOMAIN paths : e \in ArchivedFor(i)})

\* C9: an archive that create returns is finished and holds every file
\* given as a path and every regular file beneath every directory given as a
\* path; a call that fails or is interrupted returns no archive and no hash.
C9_NoPartialArchive ==
  /\ pc = "Done" =>
       /\ result.kind = "Ok"
       /\ result.archive = builder
       /\ builder.finished
       /\ ArchiveComplete
  /\ pc \in {"Failed", "Interrupted"} => NoArchiveNoFingerprint

\* a directory and a file were given, and the archive holds three entries
C9_Witness ==
  /\ pc = "Done"
  /\ Len(paths) = 2
  /\ Len(builder.entries) = 3
  /\ builder.finished
  /\ result.archive = builder

\* C10: the destination path of every entry of the archive, and of the entry
\* that add_file is about to append, is relative.
C10_DestinationsRelative ==
  /\ \A i \in DOMAIN builder.entries : ~HasRoot(builder.entries[i].path)
  /\ frame.active => ~HasRoot(frame.destination)

\* an entry archived under the destination directory "//foo"
C10_Witness ==
  /\ destination_dir = <<Sep, Sep, "foo">>
  /\ Len(builder.entries) > 0
  /\ ~HasRoot(builder.entries[1].path)

(***************************************************************************)
(* The open file, the header and the flag.                                 *)
(***************************************************************************)
\* where create is between two files: at a poll of the flag, at the start of
\* an input or of an entry, in the aggregation, or at its end
BetweenFiles ==
  pc \in {"NextInput", "Metadata", "WalkNext", "Entry", "Open", "Aggregating",
          "Finalize", "Done", "Failed", "Interrupted"}

\* C11: in every state at most one source file is open; the file opened for
\* one entry is closed before the next poll of the flag and before the next
\* input or entry begins, and no file is open once create has ended in Done,
\* Failed or Interrupted.
C11_OneFileOpen ==
  /\ descriptors \in {0, 1}
  /\ file.open <=> descriptors = 1
  /\ BetweenFiles => descriptors = 0

\* one file of a walk is in the archive, the poll before the next entry is
\* due, and no descriptor is open
C11_Witness ==
  /\ pc = "WalkNext"
  /\ Len(walk) > 0
  /\ Len(builder.entries) = 1
  /\ descriptors = 0

\* the entries and the hashes of the call under way (a call starts with those
\* of the call before it until it makes its own vector and builder)
OwnEntries == pc \notin {"Init", "Resolving"}

\* whether one of the three octal digits of the permissions is odd
AnyExecuteBit(mode) ==
  \E digit \in {mode % 8, (mode \div 8) % 8, (mode \div 64) % 8} :
     digit % 2 = 1

\* where file_hashes is still in the order of the pushes: before the sort
Unsorted ==
  pc \in {"NextInput", "Metadata", "WalkNext", "Entry", "Open", "HashRead",
          "Seek", "Append", "Aggregating"}

\* the marker in a per-file digest extend(extend(_, _), marker)
MarkerOf(digest) == digest[Len(digest) - 1]

\* C12: every entry of the archive has mode 0o777 when one of the owner,
\* group and other execute bits of the file is set and 0o666 otherwise, its
\* size is the number of bytes of the file, and the marker of the file's
\* digest ("+x" or "-x") agrees with the mode.
C12_HeaderFromFile ==
  OwnEntries =>
    \A i \in DOMAIN builder.entries :
       LET e == builder.entries[i]
           x == ingested[i]
       IN /\ e.mode = (IF AnyExecuteBit(x.mode) THEN 511 ELSE 438)
          /\ e.size = Len(x.content)
          /\ e.size = Len(e.data)
          /\ x.executable <=> e.mode = 511
          /\ Unsorted =>
               MarkerOf(file_hashes[i]) = (IF e.mode = 511 THEN "+x" ELSE "-x")

\* a file with the group's execute bit alone (0o610) is archived as 0o777,
\* next to a file archived as 0o666
C12_Witness ==
  /\ pc = "Done"
  /\ \E i, j \in DOMAIN builder.entries :
       /\ ingested[i].mode = 392
       /\ builder.entries[i].mode = 511
       /\ builder.entries[j].mode = 438

\* create is about to read the flag: before a top-level input, or before an
\* entry of a walk
AtPoll ==
  \/ pc = "NextInput" /\ index <= Len(paths)
  \/ pc = "WalkNext" /\ Len(walk) > 0

\* C13: the flag is read before each top-level input and before each entry
\* of a walk, the walked directory included; when a read returns true create
\* ends in Interrupted at once, with no metadata fetched, no file opened, no
\* digest recorded and no entry appended after that read, also when the step
\* that would have followed would have failed.
C13_InterruptedAtOnce ==
  [][/\ (AtPoll /\ interrupted) =>
          /\ pc' = "Interrupted"
          /\ result' = Err(INTERRUPT_MESSAGE)
          /\ UNCHANGED <<index, walk, frame, file, descriptors, file_hashes,
                         builder, ingested>>
     /\ (pc' = "Metadata" /\ pc # "Metadata") =>
          pc = "NextInput" /\ ~interrupted
     /\ (pc' = "Entry" /\ pc # "Entry") =>
          pc = "WalkNext" /\ ~interrupted
     /\ pc = "Interrupted" => UNCHANGED vars]_vars

\* the flag was set while the first file was ingested: create is Interrupted
\* before a second input of which the metadata could not have been fetched
C13_Witness ==
  /\ pc = "Interrupted"
  /\ result = Err(INTERRUPT_MESSAGE)
  /\ index = 2
  /\ paths[2] = <<"nope">>
  /\ Len(builder.entries) = 1

\* a call of create is under way
Running == pc \notin Terminal \cup {"Init"}

\* the inputs after the one in hand
InputsLeft == index < Len(paths)

\* An input or an entry of a walk is still to be visited: a poll of the flag
\* lies ahead of the step in hand, if that step and those after it succeed.
ToVisit ==
  \/ pc = "Resolving" /\ Len(paths) > 0
  \/ pc = "NextInput" /\ index <= Len(paths)
  \/ /\ pc = "Metadata"
     /\ \/ InputsLeft
        \/ Kind(Resolve(Join(canonical_dir, paths[index]))) = "dir"
  \/ pc = "Entry" /\ (Len(walk) > 1 \/ InputsLeft)
  \/ /\ pc \in {"WalkNext", "Open", "HashRead", "Seek", "Append"}
     /\ (Len(walk) > 0 \/ InputsLeft)

\* C14: once the flag is set while an input or an entry is still to be
\* visited, create never ends in Done: it ends in Interrupted, or in Failed
\* when the step in hand at that moment fails; a flag set after the last poll
\* has no effect, create never ends in Interrupted then.
C14_InterruptPreventsDone ==
  [][/\ (interrupted /\ ToVisit) =>
          (interrupted /\ ToVisit)' \/ pc' \in {"Interrupted", "Failed"}
     /\ (Running /\ ~ToVisit) => (~ToVisit)' /\ pc' # "Interrupted"]_vars

(***************************************************************************)
(* The phases of create.                                                   *)
(***************************************************************************)
\* the phase of the specification that a step of create belongs to:
\* Init, Resolving, Walking/Ingesting, Aggregating, Done
Phase(p) ==
  CASE p = "Init" -> 0
    [] p = "Resolving" -> 1
    [] p \in {"NextInput", "Metadata", "WalkNext", "Entry", "Open",
              "HashRead", "Seek", "Append"} -> 2
    [] p \in {"Aggregating", "Finalize"} -> 3
    [] p = "Done" -> 4
    [] OTHER -> 5

\* C15: create moves through its phases in the order Init, Resolving,
\* Walking/Ingesting, Aggregating, Done only; the hashes are sorted and
\* folded only after every input has been processed; Failed and Interrupted
\* are terminal: nothing is opened, recorded or appended after them and
\* Done is never reached.
C15_PhasesInOrder ==
  [][/\ (pc \notin Terminal /\ pc' \notin Terminal) =>
          Phase(pc') \in {Phase(pc), Phase(pc) + 1}
     /\ pc' = "Done" => Phase(pc) \in {3, 4}
     /\ Phase(pc') \in {3, 4} =>
          /\ index' = Len(paths') + 1
          /\ walk' = <<>>
          /\ ~frame'.active
     /\ (Phase(pc) = 2 /\ Phase(pc') # 1) =>
          /\ Len(file_hashes') >= Len(file_hashes)
          /\ file_hashes = SubSeq(file_hashes', 1, Len(file_hashes))
          /\ result'.fingerprint = <<>>
     /\ pc \in {"Failed", "Interrupted"} => UNCHANGED vars]_vars

\* every input has been processed and the sort has changed the order of the
\* hashes, which the fold is about to take
C15_Witness ==
  /\ pc = "Finalize"
  /\ index = Len(paths) + 1
  /\ Len(file_hashes) >= 2
  /\ file_hashes # PerFileDigests

(***************************************************************************)
(* Termination.  create runs on the caller's thread, one statement after   *)
(* the other, and each of its calls into the file system and the writer    *)
(* returns: a step that can be taken is taken.                             *)
(***************************************************************************)
SpecLive == Init /\ [][Next]_vars /\ WF_vars(Next)

\* p is q or lies below q
Below(p, q) == IsPrefix(Components(q), Components(p))

\* The entries that a walk has still to hand out are entries of different
\* paths and files of different nodes, and none of them lies below a link,
\* unless the link is the directory that was given to walk.
WalkVisitsOnce ==
  \A i, j \in DOMAIN walk :
     i # j =>
       /\ walk[i].path # walk[j].path
       /\ Kind(walk[i].node) = "file" => walk[i].node # walk[j].node
       /\ (Kind(walk[i].node) = "link" /\ Below(walk[j].path, walk[i].path)) =>
            Components(walk[i].path)
              = Components(Join(canonical_dir, paths[index]))

\* C16: on every file tree and list of paths, trees with cycles of links
\* included, a call of create ends in Done, Failed or Interrupted; a walk
\* follows no link below the directory it walks and hands out every entry
\* once.
C16_Terminates ==
  /\ []WalkVisitsOnce
  /\ Running ~> (pc \in {"Done", "Failed", "Interrupted"})

(***************************************************************************)
(* What a walk contributes.                                                *)
(***************************************************************************)
\* the places in ingested (and so in the entries) that the i-th path put there
FromInput(i) == {k \in DOMAIN ingested : ingested[k].input = i}

\* the path of the node f relative to the source directory
RelativeTo(f) ==
  SubSeq(AbsoluteText(f), Len(canonical_dir) + 2, Len(AbsoluteText(f)))

\* C17: when create succeeds, a path that names a directory has contributed
\* one digest and one entry for each regular file beneath the directory, at
\* any depth, and nothing for the directories and the links beneath it.
C17_OnePerRegularFile ==
  pc = "Done" =>
    /\ Len(ingested) = Len(builder.entries)
    /\ SameBag(file_hashes, PerFileDigests)
    /\ \A i \in DOMAIN paths :
         LET n == Resolve(Join(canonical_dir, paths[i])) IN
         Kind(n) = "dir" =>
           /\ Cardinality(FromInput(i)) = Cardinality(Beneath(n))
           /\ \A f \in Beneath(n) :
                \E k \in FromInput(i) :
                   /\ ingested[k].path = RelativeTo(f)
                   /\ ingested[k].content = fs[f].content
                   /\ builder.entries[k].data = fs[f].content
                   /\ builder.entries[k].path =
                        FromComponents(Components(destination_dir)
                                         \o Components(RelativeTo(f)))

\* the directory above a, given through the link in a, has contributed the
\* two files two levels down and nothing for a and for the link
C17_Witness ==
  /\ pc = "Done"
  /\ paths = <<(<<"a", Sep, LinkName>>)>>
  /\ Len(builder.entries) = 2
  /\ Cardinality(FromInput(1)) = 2

\* what a failed call into the file system makes of an entry of a walk
EntryIOErrors ==
  {"Unable to traverse directory", "Unable to fetch filesystem metadata",
   "Unable to canonicalize path"}

\* the walk is about to handle a regular file that can be canonicalized
FileFound ==
  /\ pc = "Entry"
  /\ Kind(Head(walk).node) = "file"
  /\ Canonicalize(Head(walk).path) # CanonicalizeError

\* C18: a regular file found by a walk whose canonical path is not beneath
\* the canonical source directory ends create in Failed with the path error
\* (unless a call into the file system fails first), the file is neither
\* hashed nor appended and nothing but the error is returned; a file beneath
\* the source directory is ingested under its canonical path less the
\* canonical source directory.
C18_OutsideRootFails ==
  [][(FileFound /\ pc' # "Entry") =>
       LET canonical == Canonicalize(Head(walk).path) IN
       IF ~Below(canonical, canonical_dir)
       THEN /\ pc' = "Failed"
            /\ result'.returned = {"error"}
            /\ result'.error \in EntryIOErrors \cup {"Unable to relativize path"}
            /\ ~frame'.active
            /\ UNCHANGED <<file_hashes, ingested, builder, descriptors>>
       ELSE pc' = "Open" =>
              /\ ~HasRoot(frame'.path)
              /\ Join(canonical_dir, frame'.path) = canonical
              /\ frame'.source = canonical
              /\ Components(frame'.destination)
                   = Components(destination_dir) \o Components(frame'.path)]_vars

\* a walk of /r1/a under the source directory /r2 has failed at its first
\* file with the path error, and nothing was hashed or appended
C18_Witness ==
  /\ pc = "Failed"
  /\ result = Err("Unable to relativize path")
  /\ canonical_dir = <<Sep, "r2">>
  /\ paths = <<(<<Sep, "r1", Sep, "a">>)>>
  /\ file_hashes = <<>>
  /\ builder.entries = <<>>

(***************************************************************************)
(* One file: open, hash, record, rewind, append.                           *)
(***************************************************************************)
\* the whole content of the file that is open
WholeFile == fs[file.node].content

\* where add_file is, for each of its steps
StepByStep ==
  /\ pc = "HashRead" =>
       /\ file.open /\ file.position = 0
       /\ Len(file_hashes) = Len(builder.entries)
  /\ pc = "Seek" =>
       /\ file.open /\ file.position = Len(WholeFile)
       /\ Len(file_hashes) = Len(builder.entries) + 1
       /\ ingested[Len(ingested)].content = WholeFile
  /\ pc = "Append" =>
       /\ file.open /\ file.position = 0
       /\ Len(file_hashes) = Len(builder.entries) + 1
       /\ ingested[Len(ingested)].content = WholeFile
  /\ OwnEntries =>
       \A i \in DOMAIN builder.entries :
          builder.entries[i].data = ingested[i].content

\* C19: each file is opened, hashed to its end, its digest recorded, its
\* read position set back to the start and then appended, in that order;
\* the position is 0 when the append starts, so what is appended is the
\* whole content that was hashed; when the open, the read or the seek fails,
\* create ends in Failed and no entry is appended for that file.
C19_HashedThenAppended ==
  /\ []StepByStep
  /\ [][/\ (pc = "Open" /\ pc' # pc) => pc' \in {"HashRead", "Failed"}
        /\ (pc = "HashRead" /\ pc' # pc) => pc' \in {"Seek", "Failed"}
        /\ (pc = "Seek" /\ pc' # pc) => pc' \in {"Append", "Failed"}
        /\ (pc \in {"Open", "HashRead", "Seek"} /\ pc' = "Failed") =>
             /\ UNCHANGED builder
             /\ ~file'.open
             /\ result'.returned = {"error"}
        /\ builder'.entries # builder.entries =>
             /\ pc = "Append"
             /\ builder'.entries =
                  Append(builder.entries,
                         [path |-> frame.destination, mode |-> frame.header.mode,
                          size |-> frame.header.size, data |-> WholeFile])]_vars

\* a second file was hashed and its digest recorded, then its seek failed:
\* create has Failed and the archive holds the entry of the first file alone
C19_Witness ==
  /\ pc = "Failed"
  /\ result = Err("Unable to seek file")
  /\ Len(file_hashes) = 2
  /\ Len(builder.entries) = 1

(***************************************************************************)
(* The hashes and the entries, side by side.                               *)
(***************************************************************************)
\* the path in the archive of the file ingested under the path rel
EntryPathOf(rel) ==
  FromComponents(IF HasRoot(rel) THEN Components(rel)
                 ELSE Components(destination_dir) \o Components(rel))

\* the digest of the file that the i-th entry holds, ingested as ingested[i]
DigestOfEntry(i) ==
  extend(extend(hash_str(ToStringLossy(ingested[i].path)),
                hash_read(builder.entries[i].data)),
         IF builder.entries[i].mode = 511 THEN <<"+x">> ELSE <<"-x">>)

DigestsOfEntries == [i \in DOMAIN builder.entries |-> DigestOfEntry(i)]

\* C20: at every poll of the flag and when create succeeds there are as many
\* digests as entries, and before the sort the i-th digest is that of the
\* file in the i-th entry; nothing is taken out as a duplicate: a file
\* reached through two paths is appended twice and has two digests.
C20_DigestsMatchEntries ==
  pc \in {"NextInput", "WalkNext", "Aggregating", "Done"} =>
    /\ Len(file_hashes) = Len(builder.entries)
    /\ Len(ingested) = Len(builder.entries)
    /\ \A i \in DOMAIN builder.entries :
         builder.entries[i].path = EntryPathOf(ingested[i].path)
    /\ pc # "Done" => file_hashes = DigestsOfEntries
    /\ pc = "Done" =>
         /\ SameBag(file_hashes, DigestsOfEntries)
         /\ \A i \in DOMAIN paths :
              Cardinality(FromInput(i)) = Cardinality(ArchivedFor(i))

\* a/b.txt was given in the directory a and as a path of its own: the
\* archive holds it twice and the hashes hold its digest twice
C20_Witness ==
  /\ pc = "Done"
  /\ Len(builder.entries) = 3
  /\ \E i \in DOMAIN builder.entries :
       /\ builder.entries[i] = builder.entries[3]
       /\ i # 3
       /\ Count(DigestOfEntry(3), file_hashes) = 2
====
